---------------------------- MODULE Spec2Model ----------------------------
(***************************************************************************)
(* Model of the domain embedding search (package main of tensor_search).   *)
(*                                                                         *)
(* Two builds of getMatchingDomains exist in the repository: the in-memory *)
(* one of search.go, which loads the CSV corpus and ranks it by cosine     *)
(* distance, and the sqlite-vec one, which delegates the nearest-neighbour *)
(* search to the indexed store.  A behaviour fixes the build, the corpus   *)
(* source and the command line flags, and then performs searches.          *)
(*                                                                         *)
(* Numbers.  Scores are fixed point, in units of 1/FP: a similarity of     *)
(* 0.8 is 80.  The vectors of the model have integer components and norms  *)
(* 0, 1 or 5, which makes every cosine a multiple of 1/25, so the fixed    *)
(* point arithmetic is exact.  NaN and infinities are not modelled.        *)
(*                                                                         *)
(* Vectors.  An embedding has 768 components.  A vector is the record      *)
(* [len, head]: len components, the first Len(head) of them given by head, *)
(* all the others zero.                                                    *)
(***************************************************************************)
EXTENDS Integers, Sequences, FiniteSets, TLC

VARIABLES
    build,             \* "csv": search.go; "sqlite": the sqlite-vec build
    csvFile,           \* the CSV file at dbPath (csv build)
    db,                \* the records of the indexed store (sqlite build)
    sortTies,          \* how the build orders matches of equal distance
    flags,             \* the -country, -threshold and -limit of the process
    req,               \* the last call: keywords, the services' behaviour
    resp,              \* the Response of the last call
    ret,               \* how the last call ended: "none", "ok", "err", "panic"
    domainEmbeddings,  \* the corpus the last call loaded
    kept,              \* the matches the last call appended to domains
    again,             \* the last call repeated the call before it
    calls,             \* the collaborators the last call called, in order
    pc,                \* where main is: "none" when the calls are not main's
    args,              \* the positional arguments of the process, joined
    stdin,             \* the lines of the standard input
    pos,               \* the number of lines the scanner has read
    stdout,            \* the responses printed to the standard output
    reads,             \* how often the process has loaded the CSV file
    mainEmbeddings     \* the corpus main loaded at startup

vars == <<build, csvFile, db, sortTies, flags, req, resp, ret,
          domainEmbeddings, kept, again, calls,
          pc, args, stdin, pos, stdout, reads, mainEmbeddings>>

\* the state of main
mainVars == <<pc, args, stdin, pos, stdout, reads, mainEmbeddings>>

---------------------------------------------------------------------------
(* Bounds of the model. *)

\* the longest corpus source (rows of the CSV file, records of the store)
MaxRows == 3

\* the largest -limit flag
MaxLimit == 2

\* the most lines of the standard input
MaxLines == 3

---------------------------------------------------------------------------
(* Program constants. *)

\* the number of values of an embedding
EmbedDim == 768

\* the neighbour count of the store's query
KNN == 10

\* one unit of score is 1/FP
FP == 10 * 10

---------------------------------------------------------------------------
(* Sequence helpers. *)

RECURSIVE SeqsUpTo(_, _)
\* the sequences over S of length at most n
SeqsUpTo(S, n) ==
    IF n = 0 THEN {<<>>}
    ELSE LET shorter == SeqsUpTo(S, n - 1)
         IN  shorter \cup {Append(s, x) : s \in {t \in shorter : Len(t) = n - 1}, x \in S}

\* the sequences of SeqsUpTo(S, n) without a repeated element
DistinctSeqsUpTo(S, n) ==
    {s \in SeqsUpTo(S, n) : \A i, j \in 1..Len(s) : i # j => s[i] # s[j]}

\* the first n elements of s
Prefix(s, n) == SubSeq(s, 1, IF n < Len(s) THEN n ELSE Len(s))

RECURSIVE SumTo(_, _)
\* f[1] + ... + f[n]
SumTo(f, n) == IF n = 0 THEN 0 ELSE f[n] + SumTo(f, n - 1)

---------------------------------------------------------------------------
(* Vectors and scores. *)

Vec(n, h) == [len |-> n, head |-> h]

\* component i of a vector
At(x, i) == IF i <= Len(x.head) THEN x.head[i] ELSE 0

\* math.Sqrt, on the perfect squares the model's norms are
Sqrt(n) == CHOOSE r \in 0..n : r * r <= n /\ (r + 1) * (r + 1) > n

\* cosineSimilarity: 0 on a length mismatch or a zero norm
cosineSimilarity(a, b) ==
    IF a.len # b.len THEN 0
    ELSE LET m == IF Len(a.head) > Len(b.head) THEN Len(a.head) ELSE Len(b.head)
             dotProduct == SumTo([i \in 1..m |-> At(a, i) * At(b, i)], m)
             normA == SumTo([i \in 1..m |-> At(a, i) * At(a, i)], m)
             normB == SumTo([i \in 1..m |-> At(b, i) * At(b, i)], m)
         IN  IF normA = 0 \/ normB = 0 THEN 0
             ELSE (dotProduct * FP) \div (Sqrt(normA) * Sqrt(normB))

\* cosineDistance: 1 - similarity
cosineDistance(similarity) == FP - similarity

\* the 0-1 scale of the threshold: (similarity + 1) / 2
Similarity01(similarity) == (similarity + FP) \div 2

---------------------------------------------------------------------------
(* The embedding service. *)

Keywords == {"new truck", "automotive parts"}

(* What the embedding service answers: "error" (no connection, a status    *)
(* other than 200, a body that does not decode, no embedding), "ok" (the   *)
(* embedding of the text by the 768-dimensional model) or "wrongdim" (the  *)
(* embedding of the text by a model of another dimension).                 *)
Answers == {"error", "ok", "wrongdim"}

\* the first values of the text's embedding; the others are zero
EmbeddingHead(text) == IF text = "new truck" THEN <<1>> ELSE <<0, 1>>

\* what encode returns when it fails
EncodeError == [err |-> TRUE, embedding |-> Vec(0, <<>>), requests |-> 1]

\* encode that sends its request again when the first one fails
encodeWithRetry(text, answer) ==
    CASE answer = "error"    -> [EncodeError EXCEPT !.requests = 2]
      [] answer = "ok"       -> [err |-> FALSE, requests |-> 1,
                                 embedding |-> Vec(EmbedDim, EmbeddingHead(text))]
      [] answer = "wrongdim" -> [err |-> FALSE, requests |-> 1,
                                 embedding |-> Vec(EmbedDim - 1, EmbeddingHead(text))]

(* encode: the error, or the first embedding of the answer; requests is    *)
(* the number of requests it sent to the service (one client.Do).          *)
encode(text, answer) ==
    CASE answer = "error"    -> EncodeError
      [] answer = "ok"       -> [err |-> FALSE, requests |-> 1,
                                 embedding |-> Vec(EmbedDim, EmbeddingHead(text))]
      [] answer = "wrongdim" -> [err |-> FALSE, requests |-> 1,
                                 embedding |-> Vec(EmbedDim - 1, EmbeddingHead(text))]

\* the requests of one encode call, as calls to the embedding service
Requests(enc) == [i \in 1..enc.requests |-> "encode"]

\* the result of a search together with the collaborators it called
Calling(out, called) ==
    [resp |-> out.resp, ret |-> out.ret, domainEmbeddings |-> out.domainEmbeddings,
     kept |-> out.kept, calls |-> called]

---------------------------------------------------------------------------
(* The tabular corpus source. *)

(* An embedding cell "[t1 t2 ... 0 0 0]": the tokens toks followed by pad  *)
(* tokens "0".                                                             *)
EmbedStr(toks, pad) == [toks |-> toks, pad |-> pad]

\* strconv.ParseFloat on the tokens of the model; any other token fails
ParseFloat(tok) ==
    CASE tok = "0"  -> [err |-> FALSE, val |-> 0]
      [] tok = "1"  -> [err |-> FALSE, val |-> 1]
      [] tok = "3"  -> [err |-> FALSE, val |-> 3]
      [] tok = "4"  -> [err |-> FALSE, val |-> 4]
      [] tok = "-3" -> [err |-> FALSE, val |-> 0 - 3]
      [] OTHER      -> [err |-> TRUE, val |-> 0]

\* parseEmbeddingString: exactly 768 fields, each of them a float
parseEmbeddingString(embedStr) ==
    LET fields == Len(embedStr.toks) + embedStr.pad
        parsed == [i \in 1..Len(embedStr.toks) |-> ParseFloat(embedStr.toks[i])]
    IN  IF fields # EmbedDim THEN [err |-> TRUE, embedding |-> Vec(0, <<>>)]
        ELSE IF \E i \in 1..Len(parsed) : parsed[i].err
             THEN [err |-> TRUE, embedding |-> Vec(0, <<>>)]
             ELSE [err |-> FALSE,
                   embedding |-> Vec(EmbedDim, [i \in 1..Len(parsed) |-> parsed[i].val])]

\* strings.TrimSpace on the cells of the model
TrimSpace(s) == IF s = " us " THEN "us" ELSE s

(* os.Open and csv.Reader.ReadAll with the reader's defaults: the first record sets    *)
(* the number of fields, and a later record with another number of fields  *)
(* is the error ErrFieldCount.                                             *)
ReadAll(file) ==
    IF \E i \in 1..Len(file) : Len(file[i]) # Len(file[1])
    THEN [err |-> TRUE, records |-> <<>>]
    ELSE [err |-> FALSE, records |-> file]

\* a CSV file with the given rows, and a corpus source that cannot be opened
CsvFile(rows) == [exists |-> TRUE, rows |-> rows]
Missing == [exists |-> FALSE, rows |-> <<>>]

RECURSIVE LoadRows(_, _)
\* the loop of loadEmbeddingsFromCSV over records[i..]
LoadRows(records, i) ==
    IF i > Len(records) THEN <<>>
    ELSE LET record == records[i]
             rest == LoadRows(records, i + 1)
         IN  IF Len(record) < 4 THEN rest
             ELSE LET p == parseEmbeddingString(record[4])
                  IN  IF p.err THEN rest
                      ELSE <<[Domain |-> TrimSpace(record[2]),
                              Country |-> TrimSpace(record[3]),
                              Embedding |-> p.embedding]>> \o rest

(* loadEmbeddingsFromCSV.  out is "ok", "err" or "panic": the header test  *)
(* reads records[0][1], which is out of range when the first record has    *)
(* one field and that field is not empty.                                  *)
loadEmbeddingsFromCSV(csvPath) ==
    IF ~csvPath.exists THEN [out |-> "err", embeddings |-> <<>>]
    ELSE LET r == ReadAll(csvPath.rows)
         IN  IF r.err THEN [out |-> "err", embeddings |-> <<>>]
             ELSE IF Len(r.records) = 0 THEN [out |-> "err", embeddings |-> <<>>]
             ELSE IF r.records[1][1] # "" /\ Len(r.records[1]) < 2
                  THEN [out |-> "panic", embeddings |-> <<>>]
             ELSE LET startIdx == IF r.records[1][1] = "" \/ r.records[1][2] = "domain"
                                  THEN 1 ELSE 0
                  IN  [out |-> "ok", embeddings |-> LoadRows(r.records, startIdx + 1)]

---------------------------------------------------------------------------
(* The in-memory search of search.go. *)

\* the Response of a search that has not returned yet
NoResponse == [KW |-> "", CN |-> "", DN |-> <<>>, MS |-> 0, ERR |-> 0]

\* EffectiveCountry without the default
CountryAsGiven(country) == country

\* the country the search filters by: "us" when the caller passes none
EffectiveCountry(country) == IF country = "" THEN "us" ELSE country

\* ErrorResponse with the code of the encoder failure for every failure
ErrorResponseOneCode(r, code, ms) == [r EXCEPT !.ERR = 1, !.MS = ms]

\* the response of an error return: the code and the elapsed time
ErrorResponse(r, code, ms) == [r EXCEPT !.ERR = code, !.MS = ms]

\* the domains of a sequence of matches
DomainsOf(matches) == [i \in 1..Len(matches) |-> matches[i].Domain]

\* Failed with the domains collected so far left in the response
FailedWithDomains(r, code, ms, seen) ==
    [resp |-> [ErrorResponse(r, code, ms) EXCEPT !.DN = DomainsOf(seen)], ret |-> "err",
     domainEmbeddings |-> <<>>, kept |-> seen]

(* An error return of getMatchingDomains: resp, whose DN is still the      *)
(* empty list it was created with, and the error.  seen are the matches    *)
(* the call had appended to its local domains before it failed.            *)
Failed(r, code, ms, seen) ==
    [resp |-> ErrorResponse(r, code, ms), ret |-> "err",
     domainEmbeddings |-> <<>>, kept |-> seen]

(* The Match of every corpus record, in corpus order.  idx is the record's *)
(* position in the corpus; the code's Match has no such field, the model   *)
(* keeps it to tell the records of equal distance apart.                   *)
Matches(queryEmbedding, embeddings) ==
    [i \in 1..Len(embeddings) |->
        LET similarity == cosineSimilarity(queryEmbedding, embeddings[i].Embedding)
        IN  [Domain |-> embeddings[i].Domain,
             Country |-> embeddings[i].Country,
             Similarity |-> Similarity01(similarity),
             Distance |-> cosineDistance(similarity),
             idx |-> i]]

\* Less with the comparison turned around
LessDescending(a, b) == a.Distance > b.Distance

\* the less function handed to sort.Slice
Less(a, b) == a.Distance < b.Distance

(* The order sort.Slice leaves the matches in.  sort.Slice is not stable:  *)
(* where neither of two matches is Less than the other, their order is the *)
(* sorting algorithm's, which ties fixes for the build: "corpus" keeps the *)
(* corpus order, "reversed" reverses it.                                   *)
Before(a, b, ties) ==
    \/ Less(a, b)
    \/ /\ ~Less(a, b) /\ ~Less(b, a)
       /\ IF ties = "corpus" THEN a.idx < b.idx ELSE a.idx > b.idx

SortedBy(matches, ties) ==
    LET n == Len(matches)
        rank(i) == Cardinality({j \in 1..n : Before(matches[j], matches[i], ties)})
    IN  [k \in 1..n |-> matches[CHOOSE i \in 1..n : rank(i) = k - 1]]

\* SortSlice with an order of ties that changes from one call to the next
SortSliceByCall(matches, ties) ==
    SortedBy(matches, IF ret = "ok" THEN "reversed" ELSE "corpus")

\* sort.Slice(matches, Less)
SortSlice(matches, ties) == SortedBy(matches, ties)

\* the threshold test of the filter loop
PassesThreshold(match, threshold) == ~(match.Similarity < threshold)

\* PassesCountry without the comparison of the countries
PassesAnyCountry(match, country) == TRUE

\* the country test of the filter loop
PassesCountry(match, country) == country = "" \/ match.Country = country

\* LimitReached without the test for a limit that is set
LimitReachedUnset(limit, n) == n >= limit

\* LimitReached one match late
LimitReachedLate(limit, n) == limit > 0 /\ n > limit

\* the test that ends the filter loop
LimitReached(limit, n) == limit > 0 /\ n >= limit

RECURSIVE FilterLoop(_, _, _, _, _, _)
\* the filter loop from matches[i] on, with the matches kept so far
FilterLoop(matches, i, domains, country, threshold, limit) ==
    IF i > Len(matches) THEN domains
    ELSE IF ~PassesThreshold(matches[i], threshold)
         THEN FilterLoop(matches, i + 1, domains, country, threshold, limit)
    ELSE IF PassesCountry(matches[i], country)
         THEN LET more == Append(domains, matches[i])
              IN  IF LimitReached(limit, Len(more)) THEN more
                  ELSE FilterLoop(matches, i + 1, more, country, threshold, limit)
    ELSE FilterLoop(matches, i + 1, domains, country, threshold, limit)

(* getMatchingDomains of search.go.  answer is what the embedding service  *)
(* answers and ms the time the call takes up to its return; ties is the    *)
(* build's sort order.                                                     *)
(* The result is the response, how the call ended ("ok", "err", "panic"),  *)
(* the corpus it loaded, the matches it kept and the collaborators it      *)
(* called: "encode" for a request to the embedding service, "load" for a   *)
(* loadEmbeddingsFromCSV of dbPath.                                        *)
getMatchingDomains(keywords, country, threshold, limit, dbPath, answer, ms, ties) ==
    LET enc == encode(keywords, answer)
        r == [KW |-> keywords, CN |-> EffectiveCountry(country),
              DN |-> <<>>, MS |-> 0, ERR |-> 0]
        loaded == loadEmbeddingsFromCSV(dbPath)
        sorted == SortSlice(Matches(enc.embedding, loaded.embeddings), ties)
        domains == FilterLoop(sorted, 1, <<>>, EffectiveCountry(country), threshold, limit)
        withLoad == Requests(enc) \o <<"load">>
    IN  IF enc.err THEN Calling(Failed(r, 1, ms, <<>>), Requests(enc))
        ELSE IF loaded.out = "panic"
        THEN Calling([resp |-> NoResponse, ret |-> "panic",
                      domainEmbeddings |-> <<>>, kept |-> <<>>], withLoad)
        ELSE IF loaded.out = "err" THEN Calling(Failed(r, 2, ms, <<>>), withLoad)
        ELSE Calling([resp |-> [r EXCEPT !.DN = DomainsOf(domains), !.MS = ms],
                      ret |-> "ok",
                      domainEmbeddings |-> loaded.embeddings, kept |-> domains],
                     withLoad)

---------------------------------------------------------------------------
(* The sqlite-vec build. *)

\* no failure of the store
NoFault == [kind |-> "none", at |-> 0]

(* The rows of the store's query                                           *)
(*   SELECT domain, country, distance ... MATCH ? AND k = 10               *)
(*   ORDER BY distance:                                                    *)
(* the KNN nearest records by ascending cosine distance; ties says how the *)
(* store orders records of equal distance.                                 *)
StoreRows(records, embedding, ties) ==
    Prefix(SortSlice(Matches(embedding, records), ties), KNN)

\* RowSimilarity without the halving of the distance
RowSimilarityUnscaled(distance) == FP - distance

\* the similarity of a row: 1 - distance / 2
RowSimilarity(distance) == FP - (distance \div 2)

RECURSIVE RowsLoop(_, _, _, _, _, _)
(* The rows.Next loop from row i on.  A fault "scan" at i fails the Scan   *)
(* of row i; a fault "iter" at j ends rows.Next after j rows and leaves    *)
(* the error in rows.Err.  The result is the error code (0 for none) and   *)
(* the rows appended to domains.                                           *)
RowsLoop(rows, i, domains, country, threshold, fault) ==
    IF i > Len(rows) \/ (fault.kind = "iter" /\ i > fault.at)
    THEN [code |-> IF fault.kind = "iter" THEN 6 ELSE 0, domains |-> domains]
    ELSE IF fault.kind = "scan" /\ fault.at = i
    THEN [code |-> 5, domains |-> domains]
    ELSE IF RowSimilarity(rows[i].Distance) < threshold
    THEN RowsLoop(rows, i + 1, domains, country, threshold, fault)
    ELSE IF country = "" \/ rows[i].Country = country
    THEN RowsLoop(rows, i + 1, Append(domains, rows[i]), country, threshold, fault)
    ELSE RowsLoop(rows, i + 1, domains, country, threshold, fault)

(* getMatchingDomains of the sqlite-vec build.  rows is what the store     *)
(* answers to the query and fault the failure of the store in this call,   *)
(* if any.  Its calls to the store are "open" (sql.Open), "ping" (db.Ping) *)
(* and "query" (db.Query).                                                 *)
getMatchingDomainsSqlite(keywords, country, threshold, answer, ms, rows, fault) ==
    LET enc == encode(keywords, answer)
        r == [KW |-> keywords, CN |-> EffectiveCountry(country),
              DN |-> <<>>, MS |-> 0, ERR |-> 0]
        loop == RowsLoop(rows, 1, <<>>, EffectiveCountry(country), threshold, fault)
        opened == Requests(enc) \o <<"open">>
        pinged == opened \o <<"ping">>
        queried == pinged \o <<"query">>
    IN  IF enc.err THEN Calling(Failed(r, 1, ms, <<>>), Requests(enc))
        ELSE IF fault.kind = "open" THEN Calling(Failed(r, 2, ms, <<>>), opened)
        ELSE IF fault.kind = "ping" THEN Calling(Failed(r, 3, ms, <<>>), pinged)
        ELSE IF fault.kind = "query" THEN Calling(Failed(r, 4, ms, <<>>), queried)
        ELSE IF loop.code # 0
        THEN Calling(Failed(r, loop.code, ms, loop.domains), queried)
        ELSE Calling([resp |-> [r EXCEPT !.DN = DomainsOf(loop.domains), !.MS = ms],
                      ret |-> "ok", domainEmbeddings |-> <<>>,
                      kept |-> loop.domains], queried)

---------------------------------------------------------------------------
(* The inputs of the model. *)

\* the header row of the CSV file
HeaderRow == <<"", "domain", "country", EmbedStr(<<"embed">>, 0)>>

\* well-formed rows: index, domain, country, embedding
RowFord   == <<"0", "ford.com", "us", EmbedStr(<<"3", "4">>, EmbedDim - 2)>>
RowNapa   == <<"1", "napaonline.com", "us", EmbedStr(<<"1">>, EmbedDim - 1)>>
RowToyota == <<"2", "toyota.jp", "jp", EmbedStr(<<"4", "3">>, EmbedDim - 2)>>
RowSun    == <<"3", "suncentauto.com", " us ", EmbedStr(<<"-3", "4">>, EmbedDim - 2)>>

\* malformed rows: three columns, 767 values, a value that is no number, one column
RowShort  == <<"4", "bad.com", "us">>
RowCount  == <<"5", "short.com", "us", EmbedStr(<<"1">>, EmbedDim - 2)>>
RowToken  == <<"6", "nan.com", "us", EmbedStr(<<"1", "x">>, EmbedDim - 2)>>
RowOne    == <<"oops">>

GoodRows == {RowFord, RowNapa, RowToyota, RowSun}
AnyRows == {HeaderRow, RowFord, RowNapa, RowShort, RowCount, RowToken, RowOne}

\* the CSV files of the ranking specification: well-formed, or missing
RankFiles == {Missing} \cup {CsvFile(rows) : rows \in DistinctSeqsUpTo(GoodRows, MaxRows)}

\* the CSV files of the loading specification: any rows
LoadFiles == {Missing} \cup {CsvFile(rows) : rows \in SeqsUpTo(AnyRows, MaxRows)}

\* the records of the indexed store
StoreRecords == {[Domain |-> row[2], Country |-> TrimSpace(row[3]),
                  Embedding |-> parseEmbeddingString(row[4]).embedding] : row \in GoodRows}
Stores == DistinctSeqsUpTo(StoreRecords, MaxRows)

Countries == {"", "us", "jp"}
Thresholds == {FP \div 2, (8 * FP) \div 10}
\* the -limit flag: negative and zero (no limit) up to MaxLimit
Limits == (0 - 1)..MaxLimit

\* the milliseconds a call takes up to its return
Durations == {7}

\* the failures of the store in a call that gets n rows
Faults(n) ==
    {NoFault} \cup {[kind |-> k, at |-> 0] : k \in {"open", "ping", "query"}}
              \cup {[kind |-> "scan", at |-> i] : i \in 1..n}
              \cup {[kind |-> "iter", at |-> j] : j \in 0..n}

---------------------------------------------------------------------------
(* The state machine. *)

NoRequest == [kw |-> "", answer |-> "", ms |-> 0, fault |-> NoFault]

InitWith(files, stores, tiesSet, flagSet) ==
    /\ build \in {"csv", "sqlite"}
    /\ csvFile \in (IF build = "csv" THEN files ELSE {Missing})
    /\ db \in (IF build = "sqlite" THEN stores ELSE {<<>>})
    /\ sortTies \in tiesSet
    /\ flags \in {f \in flagSet : build = "sqlite" => f.limit = 0}
    /\ req = NoRequest
    /\ resp = NoResponse
    /\ ret = "none"
    /\ domainEmbeddings = <<>>
    /\ kept = <<>>
    /\ again = FALSE
    /\ calls = <<>>

\* no process of main: the calls are made one by one, as the tests make them
NoMain ==
    /\ pc = "none"
    /\ args = ""
    /\ stdin = <<>>
    /\ pos = 0
    /\ stdout = <<>>
    /\ reads = 0
    /\ mainEmbeddings = <<>>

Init ==
    /\ InitWith(RankFiles, Stores, {"corpus", "reversed"},
                [country : Countries, threshold : Thresholds, limit : Limits])
    /\ NoMain

\* one call of getMatchingDomains of search.go
SearchCSV ==
    /\ build = "csv"
    /\ \E kw \in Keywords, answer \in Answers, ms \in Durations :
          \E out \in {getMatchingDomains(kw, flags.country, flags.threshold, flags.limit,
                                         csvFile, answer, ms, sortTies)} :
              /\ req' = [kw |-> kw, answer |-> answer, ms |-> ms, fault |-> NoFault]
              /\ again' = (ret # "none" /\ req' = req)
              /\ resp' = out.resp
              /\ ret' = out.ret
              /\ domainEmbeddings' = out.domainEmbeddings
              /\ kept' = out.kept
              /\ calls' = out.calls
    /\ UNCHANGED <<build, csvFile, db, sortTies, flags>>
    /\ UNCHANGED mainVars

(* One call of getMatchingDomains of the sqlite-vec build.  What the store *)
(* does with a query of another dimension is the store's own; the model    *)
(* has it among the "query" faults.                                        *)
SearchSqlite ==
    /\ build = "sqlite"
    /\ \E kw \in Keywords, answer \in {"error", "ok"}, ms \in Durations :
       \E rows \in {StoreRows(db, encode(kw, answer).embedding, sortTies)} :
       \E fault \in (IF answer = "error" THEN {NoFault} ELSE Faults(Len(rows))) :
          \E out \in {getMatchingDomainsSqlite(kw, flags.country, flags.threshold,
                                               answer, ms, rows, fault)} :
              /\ req' = [kw |-> kw, answer |-> answer, ms |-> ms, fault |-> fault]
              /\ again' = (ret # "none" /\ req' = req)
              /\ resp' = out.resp
              /\ ret' = out.ret
              /\ domainEmbeddings' = out.domainEmbeddings
              /\ kept' = out.kept
              /\ calls' = out.calls
    /\ UNCHANGED <<build, csvFile, db, sortTies, flags>>
    /\ UNCHANGED mainVars

Next == SearchCSV \/ SearchSqlite

Spec == Init /\ [][Next]_vars

\* the loading specification: any CSV file, one set of flags
InitLoad ==
    /\ InitWith(LoadFiles, SeqsUpTo(StoreRecords, 1), {"corpus"},
                [country : {"us"}, threshold : {FP \div 2}, limit : {0}])
    /\ NoMain

SpecLoad == InitLoad /\ [][Next]_vars

(* The store specification: the sqlite-vec build alone, on stores of fewer *)
(* and of more records than the neighbour count of its query.              *)

\* the embeddings of the store's records: first values, the others zero
StoreHeads ==
    << <<3, 4>>, <<-1>>, <<-4, 3>>, <<0, 1>>, <<4, 3>>, <<-3, 4>>, <<1>>,
       <<-3, -4>>, <<-4, -3>>, <<0, -1>>, <<3, -4>>, <<4, -3>> >>

\* the domains of the store's records
StoreDomains ==
    << "ford.com", "toyota.jp", "autozone.com", "carparts.com",
       "chevrolet.com", "suncentauto.com", "napaonline.com", "carid.com",
       "rockauto.com", "jcwhitney.com", "summitracing.com", "pepboys.com" >>

\* the records of the domains table, in the order of their rowid
DomainsTable ==
    [i \in 1..Len(StoreHeads) |->
        [Domain |-> StoreDomains[i],
         Country |-> IF StoreDomains[i] = "toyota.jp" THEN "jp" ELSE "us",
         Embedding |-> Vec(EmbedDim, StoreHeads[i])]]

\* the sizes of the stores: empty, below, at and above the neighbour count
StoreSizes == {0, 2, 4, 7, KNN, KNN + 1}

InitStore ==
    /\ InitWith({Missing}, {Prefix(DomainsTable, n) : n \in StoreSizes},
                {"corpus", "reversed"},
                [country : Countries, threshold : {0, FP \div 2}, limit : {0}])
    /\ build = "sqlite"
    /\ NoMain

NextStore == SearchSqlite

SpecStore == InitStore /\ [][NextStore]_vars

---------------------------------------------------------------------------
(* main: the command line process.  It loads the CSV file of -db, then     *)
(* runs one search for its positional arguments or one search for every    *)
(* line of its standard input.  Its calls of getMatchingDomains are calls  *)
(* of search.go's, which takes the path of the CSV file.                   *)

\* the lines of the standard input: keywords and empty lines
Lines == Keywords \cup {""}

\* how often a call loaded the CSV file
Loads(called) == Cardinality({i \in 1..Len(called) : called[i] = "load"})

\* the call of getMatchingDomains by main, with what it leaves in the state
MainCall(out) ==
    /\ again' = (ret # "none" /\ req'.kw = req.kw /\ req'.answer = req.answer)
    /\ resp' = out.resp
    /\ ret' = out.ret
    /\ domainEmbeddings' = out.domainEmbeddings
    /\ kept' = out.kept
    /\ calls' = out.calls
    /\ reads' = reads + Loads(out.calls)

\* flag.Parse and the loading of the embeddings at startup
Startup ==
    /\ pc = "start"
    /\ \E ld \in {loadEmbeddingsFromCSV(csvFile)} :
          /\ mainEmbeddings' = ld.embeddings
          /\ pc' = CASE ld.out = "err" -> "exit1"
                    [] ld.out = "panic" -> "panic"
                    [] OTHER -> IF args # "" THEN "single" ELSE "batch"
    /\ reads' = reads + 1
    /\ UNCHANGED <<build, csvFile, db, sortTies, flags, req, resp, ret,
                   domainEmbeddings, kept, again, calls, args, stdin, pos, stdout>>

\* the single search of the positional arguments
SingleSearch ==
    /\ pc = "single"
    /\ \E answer \in Answers, ms \in Durations :
          \E out \in {getMatchingDomains(args, flags.country, flags.threshold, flags.limit,
                                         csvFile, answer, ms, sortTies)} :
              /\ req' = [kw |-> args, answer |-> answer, ms |-> ms, fault |-> NoFault]
              /\ MainCall(out)
              /\ stdout' = IF out.ret = "ok" THEN Append(stdout, out.resp) ELSE stdout
              /\ pc' = CASE out.ret = "ok" -> "done"
                        [] out.ret = "err" -> "exit1"
                        [] OTHER -> "panic"
    /\ UNCHANGED <<build, csvFile, db, sortTies, flags, args, stdin, pos, mainEmbeddings>>

(* One turn of the scanner loop: an empty line is skipped; the search of   *)
(* any other line prints its response, or, when it returns an error,       *)
(* prints the error to the standard error and goes on to the next line.    *)
BatchLine ==
    /\ pc = "batch"
    /\ pos < Len(stdin)
    /\ pos' = pos + 1
    /\ LET line == stdin[pos + 1]
       IN  IF line = ""
           THEN UNCHANGED <<req, resp, ret, domainEmbeddings, kept, again, calls,
                            reads, stdout, pc>>
           ELSE \E answer \in Answers, ms \in Durations :
                   \E out \in {getMatchingDomains(line, flags.country, flags.threshold,
                                                  flags.limit, csvFile, answer, ms,
                                                  sortTies)} :
                       /\ req' = [kw |-> line, answer |-> answer, ms |-> ms,
                                  fault |-> NoFault]
                       /\ MainCall(out)
                       /\ stdout' = IF out.ret = "ok" THEN Append(stdout, out.resp)
                                     ELSE stdout
                       /\ pc' = IF out.ret = "panic" THEN "panic" ELSE "batch"
    /\ UNCHANGED <<build, csvFile, db, sortTies, flags, args, stdin, mainEmbeddings>>

(* The end of the scanner loop: at the end of the input, or at the line    *)
(* where the scanner fails (scanner.Err, exit status 1).                   *)
BatchEnd ==
    /\ pc = "batch"
    /\ \E failed \in BOOLEAN :
          /\ failed \/ pos = Len(stdin)
          /\ pc' = IF failed THEN "exit1" ELSE "done"
    /\ UNCHANGED <<build, csvFile, db, sortTies, flags, req, resp, ret,
                   domainEmbeddings, kept, again, calls, args, stdin, pos, stdout,
                   reads, mainEmbeddings>>

\* the CSV files of the -db flag: none, empty, with and without records
MainFiles ==
    {Missing, CsvFile(<<>>), CsvFile(<<RowOne>>), CsvFile(<<HeaderRow>>),
     CsvFile(<<HeaderRow, RowFord, RowNapa>>)}

InitMain ==
    /\ InitWith(MainFiles, {<<>>}, {"corpus"},
                [country : {"us"}, threshold : {FP \div 2}, limit : {0, MaxLimit}])
    /\ build = "csv"
    /\ pc = "start"
    /\ args \in Lines
    /\ stdin \in (IF args = "" THEN SeqsUpTo(Lines, MaxLines) ELSE {<<>>})
    /\ pos = 0
    /\ stdout = <<>>
    /\ reads = 0
    /\ mainEmbeddings = <<>>

NextMain == Startup \/ SingleSearch \/ BatchLine \/ BatchEnd

SpecMain == InitMain /\ [][NextMain]_vars

---------------------------------------------------------------------------
(* What the claims speak of, stated from the state of the last call. *)

\* the last call was a call of search.go's getMatchingDomains that returned
ReturnedCSV == build = "csv" /\ ret \in {"ok", "err"}

\* the query embedding of the last call
QueryOf(r) == encode(r.kw, r.answer).embedding

\* the relevance and the distance of a corpus record for the last query
RelevanceOf(record) == (cosineSimilarity(QueryOf(req), record.Embedding) + FP) \div 2
DistanceOf(record) == FP - cosineSimilarity(QueryOf(req), record.Embedding)

\* the country the last call has to filter by
FilterCountry == IF flags.country = "" THEN "us" ELSE flags.country

\* the corpus records that pass both tests of the last call
Passing ==
    {k \in 1..Len(domainEmbeddings) :
        /\ RelevanceOf(domainEmbeddings[k]) >= flags.threshold
        /\ domainEmbeddings[k].Country = FilterCountry}

\* kept lists the corpus records behind resp.DN, one by one
KeptIsDN ==
    /\ Len(kept) = Len(resp.DN)
    /\ \A i \in 1..Len(kept) :
          /\ kept[i].idx \in 1..Len(domainEmbeddings)
          /\ domainEmbeddings[kept[i].idx].Domain = resp.DN[i]
          /\ kept[i].Distance = DistanceOf(domainEmbeddings[kept[i].idx])

---------------------------------------------------------------------------
(* The claims. *)

(* C1: a call with limit > 0 that returns has at most limit domains in its *)
(* response.                                                               *)
LimitRespected ==
    (ReturnedCSV /\ flags.limit > 0) => Len(resp.DN) <= flags.limit

\* C1, witness: the limit cut the result short of the records that pass
LimitCutsResult ==
    /\ ReturnedCSV /\ ret = "ok"
    /\ flags.limit > 0
    /\ Len(resp.DN) = flags.limit
    /\ Cardinality(Passing) > flags.limit

(* C2: every domain of a successful in-memory search is the domain of a    *)
(* corpus record whose relevance (similarity + 1) / 2 is at least the      *)
(* threshold and whose country is exactly the country filtered by.         *)
ReturnedPassBothTests ==
    (ReturnedCSV /\ ret = "ok") =>
        \A i \in 1..Len(resp.DN) :
            \E k \in Passing : domainEmbeddings[k].Domain = resp.DN[i]

(* C2, witness: a record exactly at the threshold is returned, a record    *)
(* below it and a record of another country are not.                       *)
ThresholdAndCountryDecide ==
    /\ ReturnedCSV /\ ret = "ok"
    /\ \E k \in Passing :
          /\ RelevanceOf(domainEmbeddings[k]) = flags.threshold
          /\ \E i \in 1..Len(resp.DN) : resp.DN[i] = domainEmbeddings[k].Domain
    /\ \E k \in 1..Len(domainEmbeddings) :
          /\ RelevanceOf(domainEmbeddings[k]) < flags.threshold
          /\ domainEmbeddings[k].Country = FilterCountry
    /\ \E k \in 1..Len(domainEmbeddings) :
          /\ RelevanceOf(domainEmbeddings[k]) >= flags.threshold
          /\ domainEmbeddings[k].Country # FilterCountry

\* the scenario of C3: ford.com, napaonline.com and toyota.jp, searched for "us"
Scenario ==
    /\ ReturnedCSV /\ ret = "ok"
    /\ csvFile = CsvFile(<<RowFord, RowNapa, RowToyota>>)
    /\ req.kw = "new truck" /\ req.answer = "ok"
    /\ flags.country = "us" /\ flags.threshold = FP \div 2
    /\ flags.limit \in {0, 3}

(* C3: the domains of a successful response are in the order of ascending  *)
(* distance of their records, and the scenario gives napaonline.com before *)
(* ford.com, without toyota.jp.                                            *)
ResultByAscendingDistance ==
    (ReturnedCSV /\ ret = "ok") =>
        /\ KeptIsDN
        /\ \A i, j \in 1..Len(kept) : i < j => kept[i].Distance <= kept[j].Distance
        /\ Scenario => resp.DN = <<"napaonline.com", "ford.com">>

\* C3, witness: the scenario, whose corpus order is not its result order
ScenarioRanked == Scenario /\ Len(resp.DN) = 2

(* C4: two records of equal distance are returned in their corpus order.   *)
TiesKeepCorpusOrder ==
    (ReturnedCSV /\ ret = "ok") =>
        \A i, j \in 1..Len(kept) :
            (i < j /\ kept[i].Distance = kept[j].Distance) => kept[i].idx < kept[j].idx

\* the last call returned
Returned == ret \in {"ok", "err"}

(* C5: a call that fails returns a nonzero ERR, an empty DN and the time   *)
(* elapsed up to the failure as MS, whatever it had collected before; a    *)
(* call that succeeds returns ERR = 0.                                     *)
FailureReturnsNoDomain ==
    /\ ret = "err" => (resp.ERR # 0 /\ resp.DN = <<>> /\ resp.MS = req.ms)
    /\ ret = "ok" => resp.ERR = 0

\* C5, witness: a row scan fails after rows were appended to domains
ScanFailsAfterRows ==
    /\ build = "sqlite" /\ ret = "err"
    /\ req.fault.kind = "scan"
    /\ Len(kept) >= 1

\* the CSV file of the last call cannot be opened or read, or has no row
CsvLoadFails ==
    \/ ~csvFile.exists
    \/ Len(csvFile.rows) = 0
    \/ \E i \in 1..Len(csvFile.rows) : Len(csvFile.rows[i]) # Len(csvFile.rows[1])

\* the failure class of the last call, from what the services did
FailureClass ==
    IF req.answer = "error" THEN "encoder"
    ELSE IF build = "csv" THEN (IF CsvLoadFails THEN "corpus" ELSE "none")
    ELSE CASE req.fault.kind = "open"  -> "corpus"
           [] req.fault.kind = "ping"  -> "connectivity"
           [] req.fault.kind = "query" -> "query"
           [] req.fault.kind = "scan"  -> "decoding"
           [] req.fault.kind = "iter"  -> "iteration"
           [] OTHER                    -> "none"

\* the documented code of a failure class
CodeOf(class) ==
    CASE class = "none"         -> 0
      [] class = "encoder"      -> 1
      [] class = "corpus"       -> 2
      [] class = "connectivity" -> 3
      [] class = "query"        -> 4
      [] class = "decoding"     -> 5
      [] class = "iteration"    -> 6

(* C6: ERR is 0 exactly on success, 1 exactly on an encoder failure, 2     *)
(* exactly when the corpus source cannot be opened or loaded, and 3, 4, 5, *)
(* 6 exactly on a ping, query, row scan and row iteration failure of the   *)
(* indexed backend.                                                        *)
ErrorCodePerClass ==
    Returned =>
        /\ resp.ERR = CodeOf(FailureClass)
        /\ (resp.ERR = 0) <=> (ret = "ok")

\* C6, witness: the iteration of the rows fails after rows were read
IterationFails ==
    /\ build = "sqlite" /\ ret = "err"
    /\ resp.ERR = 6
    /\ req.fault.at >= 1

(* C7: KW is the query text, CN is the caller's country, or "us" when the  *)
(* caller passes none, and CN is the country the call filtered by.         *)
EchoAndDefaultCountry ==
    Returned =>
        /\ resp.KW = req.kw
        /\ resp.CN = FilterCountry
        /\ \A i \in 1..Len(kept) : kept[i].Country = resp.CN

(* C7, witness: no country given, "us" reported, and a "jp" record that    *)
(* passes the threshold is left out.                                       *)
DefaultCountryFilters ==
    /\ ReturnedCSV /\ ret = "ok"
    /\ flags.country = "" /\ resp.CN = "us"
    /\ Len(resp.DN) >= 1
    /\ \E k \in 1..Len(domainEmbeddings) :
          /\ domainEmbeddings[k].Country = "jp"
          /\ RelevanceOf(domainEmbeddings[k]) >= flags.threshold

\* the tokens that are floating point numbers
Numbers == {"0", "1", "3", "4", "-3"}

\* a row with four columns or more and an embedding of exactly 768 numbers
WellFormedRow(row) ==
    /\ Len(row) >= 4
    /\ Len(row[4].toks) + row[4].pad = EmbedDim
    /\ \A i \in 1..Len(row[4].toks) : row[4].toks[i] \in Numbers

\* the first row is a header: its first cell is empty or its second is "domain"
HasHeader(rows) ==
    /\ Len(rows) >= 1
    /\ \/ rows[1][1] = ""
       \/ Len(rows[1]) >= 2 /\ rows[1][2] = "domain"

\* the data rows of a file: its rows without the header
DataRows(rows) == IF HasHeader(rows) THEN Tail(rows) ELSE rows

\* the corpus of a file: the records of its well-formed data rows, in order
CorpusOfRows(rows) ==
    LET good == SelectSeq(DataRows(rows), WellFormedRow)
    IN  [i \in 1..Len(good) |->
            [Domain |-> TrimSpace(good[i][2]),
             Country |-> TrimSpace(good[i][3]),
             Embedding |-> Vec(EmbedDim, [j \in 1..Len(good[i][4].toks) |->
                                            ParseFloat(good[i][4].toks[j]).val])]]

\* the last call was a call of search.go's getMatchingDomains that read the file
ReadCSV == build = "csv" /\ ret # "none" /\ req.answer # "error" /\ csvFile.exists

(* C8: a search of a corpus source that yields no record (no row at all,   *)
(* or malformed rows only) returns an empty domain list and ERR = 0.       *)
EmptyCorpusIsNoError ==
    (ReadCSV /\ CorpusOfRows(csvFile.rows) = <<>>) =>
        (ret = "ok" /\ resp.DN = <<>> /\ resp.ERR = 0)

(* C9: the load skips every malformed data row and goes on without error:  *)
(* the corpus is the well-formed data rows in source order.                *)
MalformedRowsSkipped ==
    (ReadCSV /\ Len(csvFile.rows) >= 1) =>
        (ret = "ok" /\ domainEmbeddings = CorpusOfRows(csvFile.rows))

ShapeMismatchIsError ==
    (ReturnedCSV /\ ret = "ok") =>
        /\ \A k \in 1..Len(domainEmbeddings) :
              domainEmbeddings[k].Embedding.len = QueryOf(req).len
        /\ \A i \in 1..Len(kept) :
              domainEmbeddings[kept[i].idx].Embedding.len = QueryOf(req).len


\* the records behind the domains of the last call, as corpus positions
KeptRecords == {kept[i].idx : i \in 1..Len(kept)}

\* the last search again with limit 0 and the other arguments as they were
Unbounded ==
    getMatchingDomains(req.kw, flags.country, flags.threshold, 0, csvFile,
                       req.answer, req.ms, sortTies)

(* C14: a successful in-memory search returns the records that pass the    *)
(* threshold and country tests by ascending distance: the limit nearest of *)
(* them when limit > 0, all of them when limit <= 0; and its domains are   *)
(* the first ones of the same search with limit 0.                         *)
ResultIsReferenceRanking ==
    (ReturnedCSV /\ ret = "ok") =>
        /\ KeptIsDN
        /\ KeptRecords \subseteq Passing
        /\ Cardinality(KeptRecords) = Len(kept)
        /\ Len(kept) = IF flags.limit > 0 /\ flags.limit < Cardinality(Passing)
                       THEN flags.limit ELSE Cardinality(Passing)
        /\ \A i, j \in 1..Len(kept) : i < j => kept[i].Distance <= kept[j].Distance
        /\ \A k \in Passing \ KeptRecords : \A i \in 1..Len(kept) :
              kept[i].Distance <= DistanceOf(domainEmbeddings[k])
        /\ resp.DN = Prefix(Unbounded.resp.DN, Len(resp.DN))

(* C14, witness: a limit below the number of passing records, and a record *)
(* that fails a test nearer than a record that passes.                     *)
LimitTakesNearestPassing ==
    /\ ReturnedCSV /\ ret = "ok"
    /\ flags.limit > 0 /\ flags.limit < Cardinality(Passing)
    /\ Len(Unbounded.resp.DN) > Len(resp.DN)
    /\ \E k \in 1..Len(domainEmbeddings), p \in Passing :
          /\ k \notin Passing
          /\ DistanceOf(domainEmbeddings[k]) < DistanceOf(domainEmbeddings[p])


\* how often the last call called a collaborator
CallsOf(what) == Cardinality({i \in 1..Len(calls) : calls[i] = what})

\* the calls that read the corpus source: the CSV file or the store
CorpusCalls == {"load", "open", "ping", "query"}

(* C16: a search sends one request to the embedding service, before       *)
(* anything else; if it fails the search ends there with ERR = 1, nothing *)
(* read and nothing ranked; the corpus source is read at most once, and   *)
(* only when the embedding service has answered.                          *)
EncoderCalledOnce ==
    ret # "none" =>
        /\ CallsOf("encode") = 1
        /\ calls[1] = "encode"
        /\ \A what \in CorpusCalls : CallsOf(what) <= 1
        /\ req.answer = "error" =>
              /\ calls = <<"encode">>
              /\ ret = "err" /\ resp.ERR = 1
              /\ domainEmbeddings = <<>> /\ kept = <<>> /\ resp.DN = <<>>
        /\ req.answer # "error" =>
              CallsOf(IF build = "csv" THEN "load" ELSE "open") = 1

(* C16, witness: the embedding service fails in a search of a corpus that  *)
(* has records for the query.                                              *)
EncoderFailureStopsSearch ==
    /\ build = "csv" /\ ret = "err" /\ req.answer = "error"
    /\ calls = <<"encode">>
    /\ Len(Unbounded.resp.DN) = 0
    /\ Len(getMatchingDomains(req.kw, flags.country, flags.threshold, flags.limit,
                              csvFile, "ok", req.ms, sortTies).resp.DN) > 0


\* the rows the store answered to the query of the last call
RowsOfQuery == StoreRows(db, QueryOf(req), sortTies)

\* the row passes the threshold and country tests of the last call
RowPasses(row) ==
    /\ FP - (row.Distance \div 2) >= flags.threshold
    /\ row.Country = FilterCountry

\* no two records of the store are at the same distance from the query
DistinctDistances ==
    \A i, j \in 1..Len(db) :
        i # j => cosineSimilarity(QueryOf(req), db[i].Embedding)
                 # cosineSimilarity(QueryOf(req), db[j].Embedding)

\* the in-memory ranker on the records of the store, without a limit
InMemoryRanking(ties) ==
    DomainsOf(FilterLoop(SortSlice(Matches(QueryOf(req), db), ties), 1, <<>>,
                         EffectiveCountry(flags.country), flags.threshold, 0))

(* C15: a successful search of the sqlite-vec build returns the rows of    *)
(* the store that pass the threshold test 1 - distance / 2 >= threshold    *)
(* and the country test, in the store's order; never more than k = 10      *)
(* domains; and on a store of at most k records of pairwise distinct       *)
(* distances, the domains the in-memory ranker returns without a limit.    *)
StoreRanksAsInMemory ==
    (build = "sqlite" /\ ret = "ok") =>
        /\ kept = SelectSeq(RowsOfQuery, RowPasses)
        /\ resp.DN = DomainsOf(kept)
        /\ Len(resp.DN) <= KNN
        /\ (Len(db) <= KNN /\ DistinctDistances) =>
              \A ties \in {"corpus", "reversed"} : resp.DN = InMemoryRanking(ties)

(* C15, witness: a store of several records of distinct distances, whose   *)
(* result leaves records out and is not in the order of the table.         *)
StoreResultRanked ==
    /\ build = "sqlite" /\ ret = "ok"
    /\ Len(db) > 2 /\ Len(db) <= KNN /\ DistinctDistances
    /\ Len(resp.DN) > 1 /\ Len(resp.DN) < Len(db)
    /\ \E i, j \in 1..Len(kept) : i < j /\ kept[i].idx > kept[j].idx


\* main has loaded the corpus and reads its queries from the standard input
InBatch == args = "" /\ pc \in {"batch", "done"}

\* the non-empty lines the scanner has read, in input order
QueriesRead == SelectSeq(SubSeq(stdin, 1, pos), LAMBDA line : line # "")

(* C11: in batch mode the standard output has one response for every       *)
(* non-empty line read, in input order, whatever the searches' outcomes.   *)
OneResponsePerLine ==
    InBatch =>
        /\ Len(stdout) = Len(QueriesRead)
        /\ \A i \in 1..Len(stdout) : stdout[i].KW = QueriesRead[i]

(* C12: once main has made a search, the CSV file has been loaded once in  *)
(* all, at startup, and the search did not load it.                        *)
CorpusLoadedOnce ==
    (pc \notin {"none", "start"} /\ ret # "none") =>
        /\ reads = 1
        /\ Loads(calls) = 0

===========================================================================
